---- MODULE Spec2Model ----
(***************************************************************************)
(* A model of pypads' hierarchical cache (src/pypads/caches.py) and of the *)
(* run lifecycle of its API (src/pypads/app/api.py): the mlflow run stack, *)
(* the process cache, the lazily created run caches, the setup / teardown  *)
(* registries kept inside those caches, and the type-dispatching merge.    *)
(***************************************************************************)
EXTENDS Integers, Sequences, FiniteSets, TLC

(***************************************************************************)
(* Bounds of the model.                                                    *)
(***************************************************************************)
MaxRuns == 2      \* runs the backend creates: run ids 1..MaxRuns
MaxLen == 1       \* length of the lists held by the caches that are merged

(***************************************************************************)
(* Program constants.                                                      *)
(***************************************************************************)
PyNone == 0       \* Python's None: no run id given, no active run, no value
MaxSize == 9      \* sys.maxsize, the order of the run cache's cleanup entry

Vals == {1, 2}
UserKeys == {"x"}
UserNames == {"a"}
RegNames == {"a", "b", "c"}
RegOrders == {1, 3, 5}
Fns == {"fn1", "fn2"}
Outcomes == {"ok", "Exception", "KeyboardInterrupt"}

VARIABLES
    stack,        \* mlflow's stack of active runs, the last one is active_run()
    nruns,        \* runs created on the backend so far: mlflow.get_run knows 1..nruns
    ended,        \* runs the backend has closed (mlflow.end_run)
    run_caches,   \* PypadsCache._run_caches: run id -> run cache
    cache,        \* PypadsCache._cache: the process cache
    scopes,       \* the open intermediate_run scopes, innermost last
    last,         \* what the last handler did and returned
    merge,        \* SpecMerge: the caches merged and the outcome of the merge
    wrapped,      \* what track() handed to the wrap manager, call by call
    artifacts,    \* the artifacts the backend stores, by name
    callers,      \* SpecThreads: the threads inside run_add, each with its position
    folders       \* the runs that have a folder of temporary files on disk

vars == <<stack, nruns, ended, run_caches, cache, scopes, last, merge, wrapped, artifacts,
          callers, folders>>

(***************************************************************************)
(* Values.  An optional key of a cache is <<>> when the key is absent and  *)
(* <<v>> when it holds v.  A registry (a Cache of named run functions) is  *)
(* the sequence of its entries in insertion order, the order in which a    *)
(* Python dict iterates.                                                   *)
(***************************************************************************)
\* A run function: nested and intermediate are the flags of a RunSetup, which a
\* function registered without flags has set.
Entry(name, fn, order, run) ==
    [name |-> name, fn |-> fn, order |-> order, run |-> run, nested |-> TRUE,
     intermediate |-> TRUE]

EmptyFn == [k \in {} |-> PyNone]

\* Cache.__init__ / PypadsRunCache.__init__: an empty run cache
NewRunCache == [data |-> EmptyFn, post |-> <<>>, encl |-> <<>>]

\* PypadsCache.__init__: the process cache holds no registry yet
NewProcCache == [pre |-> <<>>, post |-> <<>>, cons |-> <<>>]

\* The world the handlers act on, as one value.
World ==
    [stack |-> stack, nruns |-> nruns, ended |-> ended, rc |-> run_caches, pc |-> cache,
     art |-> artifacts, tmp |-> folders]

\* mlflow.active_run()
active_run(w) == IF w.stack = <<>> THEN PyNone ELSE w.stack[Len(w.stack)]

RegNamesOf(reg) == {reg[i].name : i \in 1..Len(reg)}

RegGet(reg, name) == reg[CHOOSE i \in 1..Len(reg) : reg[i].name = name]

Drop(f, k) == [j \in DOMAIN f \ {k} |-> f[j]]

Put(f, k, v) == [j \in DOMAIN f \cup {k} |-> IF j = k THEN v ELSE f[j]]

(***************************************************************************)
(* PypadsCache._get_run / run_init and the teardown registry.              *)
(***************************************************************************)
\* PypadsCache._get_run: the run a run-scoped operation resolves
get_run(w, rid) == IF rid = PyNone THEN active_run(w) ELSE rid

\* A run_init that does not check whether a run resolved.
NoRunResolved_Unchecked(w, rid) == FALSE

\* run_init raises ValueError("No run is active...") when no run resolves
NoRunResolved(w, rid) == get_run(w, rid) = PyNone

\* cleanup_cache(run_id=self.run_id()) as a teardown entry
CleanupEntry(run) == Entry("cache_cleanup", "cleanup_cache", MaxSize, run)

RECURSIVE register_teardown(_, _)

\* pads.api.register_post_fn(name, fn, order=...): registers a teardown utility
register_post_fn(w, e) == register_teardown(w, e)

\* PypadsRunCache.register_cleanup_fn
register_cleanup_fn(w, run) == register_post_fn(w, CleanupEntry(run))

\* PypadsCache.run_init, for a run that resolves
run_init(w, rid) ==
    LET run == get_run(w, rid)
    IN  IF run \in DOMAIN w.rc THEN w
        ELSE register_cleanup_fn([w EXCEPT !.rc = Put(w.rc, run, NewRunCache)], run)

\* PyPadsApi._get_teardown_cache: the world once the registry of the scope exists
get_teardown_cache(w) ==
    IF active_run(w) = PyNone
    THEN IF w.pc.post = <<>> THEN [w EXCEPT !.pc.post = << <<>> >>] ELSE w
    ELSE LET w1 == run_init(w, PyNone)
             a == active_run(w)
         IN  IF w1.rc[a].post = <<>> THEN [w1 EXCEPT !.rc[a].post = << <<>> >>] ELSE w1

\* the registry _get_teardown_cache returns
teardown_registry(w) ==
    IF active_run(w) = PyNone THEN w.pc.post[1] ELSE w.rc[active_run(w)].post[1]

\* A register_teardown that overwrites an entry registered under the same name.
register_teardown_Overwrite(w, e) ==
    LET w1 == get_teardown_cache(w)
        reg == teardown_registry(w1)
        a == active_run(w1)
        new == IF e.name \in RegNamesOf(reg)
               THEN [i \in 1..Len(reg) |-> IF reg[i].name = e.name THEN e ELSE reg[i]]
               ELSE Append(reg, e)
    IN  IF a = PyNone THEN [w1 EXCEPT !.pc.post = <<new>>]
        ELSE [w1 EXCEPT !.rc[a].post = <<new>>]

\* PyPadsApi.register_teardown
register_teardown(w, e) ==
    LET w1 == get_teardown_cache(w)
        reg == teardown_registry(w1)
        a == active_run(w1)
    IN  IF e.name \in RegNamesOf(reg) THEN w1
        ELSE IF a = PyNone THEN [w1 EXCEPT !.pc.post = <<Append(reg, e)>>]
             ELSE [w1 EXCEPT !.rc[a].post = <<Append(reg, e)>>]

(***************************************************************************)
(* Cache and the run-scoped operations of PypadsCache, for a run that      *)
(* resolves (the handlers check NoRunResolved first, as run_init does).    *)
(***************************************************************************)
\* Cache.add of a scalar: inserts, or overwrites the value the key holds
cache_add(data, key, value) == Put(data, key, value)

\* Cache.get(item): the value, or None
cache_get(data, key) == IF key \in DOMAIN data THEN data[key] ELSE PyNone

\* Cache.exists
cache_exists(data, key) == key \in DOMAIN data

\* PypadsCache.run_add(key, value, run_id)
run_add(w, key, value, rid) ==
    LET w1 == run_init(w, rid)
        run == get_run(w, rid)
    IN  [w1 EXCEPT !.rc[run].data = cache_add(@, key, value)]

\* PypadsCache.run_add("enclosing_run", enclosing_run) of intermediate_run
run_add_enclosing(w, enclosing) ==
    LET w1 == run_init(w, PyNone)
    IN  [w1 EXCEPT !.rc[active_run(w)].encl = <<enclosing>>]

\* Cache.pop(key, default): what the call returns; an absent key gives None
Cache_pop(data, key, default) == IF key \in DOMAIN data THEN data[key] ELSE PyNone

\* PypadsCache.run_pop: the key is removed when present
run_pop(w, key, rid) ==
    LET w1 == run_init(w, rid)
        run == get_run(w, rid)
    IN  [w1 EXCEPT !.rc[run].data = Drop(@, key)]

\* PypadsCache.run_clear: Cache.clear() of the resolved run cache
run_clear(w, rid) ==
    LET w1 == run_init(w, rid)
    IN  [w1 EXCEPT !.rc[get_run(w, rid)] = NewRunCache]

\* PypadsCache.run_delete: the run cache leaves the registry
run_delete(w, rid) ==
    LET w1 == run_init(w, rid)
    IN  [w1 EXCEPT !.rc = Drop(@, get_run(w, rid))]

(***************************************************************************)
(* Logging with meta sidecars.  An artifact name "a.b.c" is the sequence   *)
(* <<a, b, c>>; the backend's store is the set of the artifacts it holds,  *)
(* each with its name and its content.  A meta model is its kind and the   *)
(* name it describes; the meta argument of log_artifact is a dict or None. *)
(***************************************************************************)
MetaKeys == {"x", "y"}

LocalPaths == {<<"x">>, <<"tmp", "y">>}

\* FileFormats.json.value, FileFormats.yaml.value, FileFormats.text.value
JsonFormat == "json"
YamlFormat == "yaml"
TextFormat == "text"

MetaModel(kind, name) == [kind |-> kind, name |-> name]

RawMetas == {MetaModel("none", ""), MetaModel("dict", "")}

\* os.path.basename
basename(path) == path[Len(path)]

\* _to_metric_meta_name, _to_param_meta_name, _to_tag_meta_name and
\* _to_artifact_meta_name: a name made of the kind and the key
to_meta_name(kind, key) == <<kind, key>>

\* backend.log_mem_artifact(obj, meta): obj is stored under meta.path with the
\* extension of meta.file_format, replacing what that name held
backend_log_mem_artifact(store, obj, path, file_format) ==
    LET name == Append(path, file_format)
    IN  {a \in store : a.name # name} \cup {[name |-> name, content |-> obj]}

\* backend.log_artifact(local_path, ...): the file is stored under its base name
backend_log_artifact(store, local_path) ==
    LET name == <<basename(local_path)>>
    IN  {a \in store : a.name # name} \cup {[name |-> name, content |-> MetaModel("file", name[1])]}

\* read_artifact(name): whether the store holds an artifact of that name
read_artifact(store, name) == \E a \in store : a.name = name

\* the default write_format of _write_meta
write_format == JsonFormat

\* the default read_format of _read_meta
read_format == YamlFormat

\* PyPadsApi._write_meta: meta.json(...) is stored under name + ".meta"; a dict
\* or None has no json()
write_meta(store, name, meta) ==
    IF meta.kind \in {"none", "dict"} THEN [err |-> "AttributeError", store |-> store]
    ELSE [err |-> "",
          store |-> backend_log_mem_artifact(store, meta, Append(name, "meta"), write_format)]

\* PyPadsApi._read_meta: the name read is name + ".meta." + read_format.value
read_meta(store, name) == read_artifact(store, Append(Append(name, "meta"), read_format))

\* PyPadsApi.log_metric: the backend logs the value, then the meta model is written
log_metric(store, key) == write_meta(store, to_meta_name("metric", key), MetaModel("metric", key))

\* PyPadsApi.log_param
log_param(store, key) == write_meta(store, to_meta_name("param", key), MetaModel("param", key))

\* PyPadsApi.set_tag
set_tag(store, key) == write_meta(store, to_meta_name("tag", key), MetaModel("tag", key))

\* PyPadsApi.log_artifact: the file is stored, then _log_artifact_meta is handed
\* the meta argument itself
log_artifact(store, local_path, meta) ==
    write_meta(backend_log_artifact(store, local_path),
               to_meta_name("artifact", basename(local_path)), meta)

\* PyPadsApi.log_mem_artifact(path, obj, write_format=file_format): the object
\* is stored, then its meta model
log_mem_artifact_as(store, path, file_format) ==
    write_meta(backend_log_mem_artifact(store, MetaModel("file", path), <<path>>, file_format),
               to_meta_name("artifact", path), MetaModel("artifact", path))

\* PyPadsApi.log_mem_artifact with the default write_format, FileFormats.text
log_mem_artifact(store, path) == log_mem_artifact_as(store, path, TextFormat)

(***************************************************************************)
(* Ordered execution of registered run functions.                          *)
(***************************************************************************)
\* s is sorted by order: e goes behind every entry whose order is not larger
Insert(s, e) ==
    LET k == Cardinality({i \in 1..Len(s) : s[i].order <= e.order})
    IN  SubSeq(s, 1, k) \o <<e>> \o SubSeq(s, k + 1, Len(s))

RECURSIVE SortByOrder(_)
\* list.sort(key=lambda f: f.order): stable, ascending
SortByOrder(s) ==
    IF s = <<>> THEN <<>> ELSE Insert(SortByOrder(SubSeq(s, 1, Len(s) - 1)), s[Len(s)])

\* A fn_list that is left in registration order.
fn_list_Unsorted(reg) == reg

\* fns.sort(key=lambda f: f.order) of run_setups and end_run
fn_list(reg) == SortByOrder(reg)

\* An except clause that names Exception alone.
caught_ExceptionOnly(kind) == kind \in {"Exception", "AttributeError"}

\* except (KeyboardInterrupt, Exception) of end_run
caught(kind) == kind \in {"Exception", "AttributeError", "KeyboardInterrupt"}

\* what invoking teardown entry e raises: "ok" when it returns
outcome(e, exc) == IF e.fn = "cleanup_cache" THEN "ok" ELSE exc[e.name]

\* a step of end_run: what was done, to which entry, and the run active then
Step(ev, name, active) == [ev |-> ev, name |-> name, active |-> active]

RECURSIVE teardown_loop(_, _, _, _, _)
\* the for loop of end_run over fn_list from position i on; acc collects the
\* world, the entries invoked, the entries warned about, an uncaught exception
\* and the steps taken
teardown_loop(acc, run, fns, i, exc) ==
    IF i > Len(fns) \/ acc.err # "" THEN acc
    ELSE LET e == fns[i]
             \* run.info raises AttributeError before the call when run is None
             called == run # PyNone
             out == IF called THEN outcome(e, exc) ELSE "AttributeError"
             w1 == IF called /\ e.fn = "cleanup_cache" THEN run_delete(acc.w, e.run) ELSE acc.w
             acc1 == [w |-> w1,
                      invoked |-> IF called THEN Append(acc.invoked, e) ELSE acc.invoked,
                      warned |-> IF out # "ok" /\ caught(out) THEN Append(acc.warned, e)
                                 ELSE acc.warned,
                      err |-> IF out # "ok" /\ ~caught(out) THEN out ELSE "",
                      steps |-> IF called
                                THEN Append(acc.steps, Step("call", e.name, active_run(acc.w)))
                                ELSE acc.steps]
         IN  teardown_loop(acc1, run, fns, i + 1, exc)

\* mlflow.end_run(): the active run is closed and leaves the stack
mlflow_end_run(w) ==
    IF w.stack = <<>> THEN w
    ELSE [w EXCEPT !.stack = SubSeq(@, 1, Len(@) - 1), !.ended = @ \cup {active_run(w)}]

\* pypads.utils.logging_util.get_temp_folder(run): the folder of the run; there
\* is none to name without a run
get_temp_folder(run) == IF run = PyNone THEN <<>> ELSE <<run>>

\* line 521: run = self.active_run()
end_begin(w) ==
    [w |-> w, run |-> active_run(w), fetched |-> <<>>, invoked |-> <<>>, warned |-> <<>>,
     err |-> "", closed |-> PyNone, steps |-> <<>>]

\* lines 523-526: the consolidated dict of the process cache is logged as the
\* artifact "consolidated_log"
end_flush(st) ==
    IF st.w.pc.cons = <<>> THEN st
    ELSE [st EXCEPT !.w.art = log_mem_artifact_as(@, "consolidated_log", JsonFormat).store,
                    !.steps = Append(@, Step("flush", "", active_run(st.w)))]

\* the outcome of the loop over the teardown entries, added to the state of end_run
end_looped(st, fns, loop) ==
    [st EXCEPT !.w = loop.w, !.fetched = fns, !.invoked = loop.invoked,
               !.warned = loop.warned, !.err = loop.err, !.steps = loop.steps]

\* lines 528-537: the teardown entries are fetched, sorted and called
end_teardowns(st, exc) ==
    IF st.err # "" THEN st
    ELSE end_looped(st, fn_list(teardown_registry(get_teardown_cache(st.w))),
                    teardown_loop([w |-> get_teardown_cache(st.w), invoked |-> <<>>,
                                   warned |-> <<>>, err |-> "", steps |-> st.steps],
                                  st.run, fn_list(teardown_registry(get_teardown_cache(st.w))),
                                  1, exc))

\* line 539: mlflow.end_run()
end_close(st) ==
    IF st.err # "" THEN st
    ELSE [st EXCEPT !.w = mlflow_end_run(@), !.closed = st.run,
                    !.steps = Append(@, Step("close", "", active_run(st.w)))]

\* lines 542-545: the folder of temporary files of the run is removed
end_clean(st) ==
    IF st.err # "" THEN st
    ELSE IF get_temp_folder(st.run) = <<>> THEN [st EXCEPT !.err = "ValueError"]
    ELSE IF st.run \in st.w.tmp
         THEN [st EXCEPT !.w.tmp = @ \ {st.run},
                         !.steps = Append(@, Step("clean", "", active_run(st.w)))]
         ELSE st

\* An end_run that closes the backend run before it calls the teardown entries.
end_run_CloseFirst(w, exc) == end_clean(end_teardowns(end_close(end_flush(end_begin(w))), exc))

\* PyPadsApi.end_run; exc tells what each user entry raises
end_run(w, exc) == end_clean(end_close(end_teardowns(end_flush(end_begin(w)), exc)))

\* PyPadsApi._get_setup_cache: the world once the setup registry exists
get_setup_cache(w) == IF w.pc.pre = <<>> THEN [w EXCEPT !.pc.pre = << <<>> >>] ELSE w

\* A register_setup that overwrites an entry registered under the same name.
register_setup_Overwrite(w, e) ==
    LET w1 == get_setup_cache(w)
        reg == w1.pc.pre[1]
    IN  IF e.name \in RegNamesOf(reg)
        THEN [w1 EXCEPT !.pc.pre =
                 << [i \in 1..Len(reg) |-> IF reg[i].name = e.name THEN e ELSE reg[i]] >>]
        ELSE [w1 EXCEPT !.pc.pre = <<Append(reg, e)>>]

\* PyPadsApi.register_setup
register_setup(w, e) ==
    LET w1 == get_setup_cache(w)
        reg == w1.pc.pre[1]
    IN  IF e.name \in RegNamesOf(reg) THEN w1
        ELSE [w1 EXCEPT !.pc.pre = <<Append(reg, e)>>]

\* the entries run_setups calls: all up to the first one that raises
SetupPrefix(fns, exc) ==
    LET bad == {i \in 1..Len(fns) : exc[fns[i].name] # "ok"}
    IN  IF bad = {} THEN fns
        ELSE SubSeq(fns, 1, CHOOSE i \in bad : \A j \in bad : i <= j)

\* TmpRunSetupFunction(fn=fn, nested=nested, intermediate=intermediate, order=order)
\* of register_setup_fn
SetupFn(name, fn, nested, intermediate, order) ==
    [Entry(name, fn, order, PyNone) EXCEPT !.nested = nested, !.intermediate = intermediate]

\* PyPadsApi.is_intermediate_run: the active run's cache holds an enclosing run
is_intermediate_run(w) ==
    /\ active_run(w) \in DOMAIN w.rc
    /\ w.rc[active_run(w)].encl # <<>>
    /\ w.rc[active_run(w)].encl[1] # PyNone

\* the run being set up was started inside another run
is_nested_run(w) == Len(w.stack) > 1

\* RunSetup.__call__: an entry runs its function unless its flags exclude the
\* nested or the intermediate run that is being set up
gate(w, e) ==
    /\ (e.nested \/ ~is_nested_run(w))
    /\ (e.intermediate \/ ~is_intermediate_run(w))

\* the entries of fns whose gate is open, in the order of fns
Executed(w, fns) ==
    LET open == {i \in 1..Len(fns) : gate(w, fns[i])}
        nth(k) == CHOOSE i \in open : Cardinality({j \in open : j < i}) = k - 1
    IN  [k \in 1..Cardinality(open) |-> fns[nth(k)]]

\* PyPadsApi.run_setups; exc tells what each setup entry raises when it runs
run_setups(w, exc) ==
    LET w1 == get_setup_cache(w)
        fns == fn_list(w1.pc.pre[1])
        gated == {fns[i].name : i \in {j \in 1..Len(fns) : ~gate(w1, fns[j])}}
        raised == [n \in DOMAIN exc |-> IF n \in gated THEN "ok" ELSE exc[n]]
        inv == SetupPrefix(fns, raised)
    IN  [w |-> w1, fetched |-> fns, invoked |-> inv, executed |-> Executed(w1, inv),
         err |-> IF inv = <<>> THEN "" ELSE
                 IF raised[inv[Len(inv)].name] = "ok" THEN "" ELSE raised[inv[Len(inv)].name]]

\* mlflow.start_run(nested=...) raises when a run is active and nested is false
mlflow_start_refused(w, nested) == w.stack # <<>> /\ ~nested

\* mlflow.start_run: a fresh run becomes the active run
mlflow_start_run(w) ==
    [w EXCEPT !.nruns = @ + 1, !.stack = Append(@, w.nruns + 1)]

\* PyPadsApi.start_run
start_run(w, nested, setups, exc) ==
    IF mlflow_start_refused(w, nested)
    THEN [w |-> w, run |-> PyNone, fetched |-> <<>>, invoked |-> <<>>, executed |-> <<>>,
          err |-> "Exception"]
    ELSE LET w1 == mlflow_start_run(w)
             s == run_setups(w1, exc)
         IN  IF setups
             THEN [w |-> s.w, run |-> active_run(w1), fetched |-> s.fetched,
                   invoked |-> s.invoked, executed |-> s.executed, err |-> s.err]
             ELSE [w |-> w1, run |-> active_run(w1), fetched |-> <<>>, invoked |-> <<>>,
                   executed |-> <<>>, err |-> ""]

(***************************************************************************)
(* cache_merge.  A cache's contents are a mapping from keys to values; a   *)
(* value carries its Python type: an int, None, a list, a set, a dict or a *)
(* nested Cache.  A merge returns the mapping, or the exception it raises. *)
(***************************************************************************)
NoVal == [t |-> "none", i |-> PyNone, l |-> <<>>, s |-> {}, d |-> EmptyFn, c |-> EmptyFn]
VNone == NoVal
VInt(n) == [NoVal EXCEPT !.t = "int", !.i = n]
VList(l) == [NoVal EXCEPT !.t = "list", !.l = l]
VSet(x) == [NoVal EXCEPT !.t = "set", !.s = x]
VDict(d) == [NoVal EXCEPT !.t = "dict", !.d = d]
VCache(m) == [NoVal EXCEPT !.t = "cache", !.c = m]

Returned(m) == [err |-> "", map |-> m]
Raised(kind, m) == [err |-> kind, map |-> m]

\* the order in which the items of a mapping are iterated
KeyOrder == <<"j", "k", "m">>

\* pypads.util.dict_merge(node, value) for dicts of scalars: value's items are
\* layered onto node's; an argument that is no dict is skipped
dict_merge(node, value) ==
    IF node.t = "dict"
    THEN [x \in DOMAIN node.d \cup DOMAIN value.d |->
             IF x \in DOMAIN value.d THEN value.d[x] ELSE node.d[x]]
    ELSE value.d

Min(S) == CHOOSE x \in S : \A y \in S : x <= y

\* merged.setdefault(key, default)
setdefault(merged, key, default) == IF key \in DOMAIN merged THEN merged[key] ELSE default

\* lines 17-19: node = merged.setdefault(key, []); merged[key] = node.extend(value)
\* list.extend returns None; a node that is no list has no extend
list_branch(merged, key, value) ==
    LET node == setdefault(merged, key, VList(<<>>))
    IN  IF node.t = "list" THEN Returned(Put(merged, key, VNone))
        ELSE Raised("AttributeError", merged)

\* lines 20-27: the elements of value are added to the set under key; an element
\* that is already there is popped with s.pop(v), which takes no argument
set_branch(merged, key, value) ==
    LET s == setdefault(merged, key, VSet({}))
        m1 == Put(merged, key, s)
    IN  IF value.s = {} THEN Returned(m1)
        ELSE IF s.t = "set"
             THEN IF s.s \cap value.s # {} THEN Raised("TypeError", merged)
                  ELSE Returned(Put(merged, key, VSet(s.s \cup value.s)))
        \* `v in s` on a list, then list.pop(v) or list.add
        ELSE IF s.t = "list"
             THEN IF (\E i \in 1..Len(s.l) : s.l[i] = Min(value.s)) /\ Min(value.s) >= Len(s.l)
                  THEN Raised("IndexError", merged) ELSE Raised("AttributeError", merged)
        \* `v in s` on a dict looks for a key; dict has no add
        ELSE IF s.t = "dict" THEN Raised("AttributeError", merged)
        \* `v in s` on an int, None or a Cache
        ELSE Raised("TypeError", merged)

RECURSIVE cache_merge(_)

\* lines 28-30: node = merged.setdefault(key, Cache()); merged[key] = value.merge(node)
\* Cache.merge(value, node) sets value's contents to cache_merge(value, node)
cache_branch(merged, key, value) ==
    LET node == setdefault(merged, key, VCache(EmptyFn))
    IN  IF node.t # "cache" THEN Raised("AttributeError", merged)
        ELSE LET r == cache_merge(<<value.c, node.c>>)
             IN  IF r.err # "" THEN Raised(r.err, merged)
                 ELSE Returned(Put(merged, key, VCache(r.map)))

\* the body of the loop over d.items(), lines 14-32
merge_item(merged, key, value) ==
    CASE value.t = "dict" ->
             Returned(Put(merged, key,
                          VDict(dict_merge(setdefault(merged, key, VDict(EmptyFn)), value))))
      [] value.t = "list" -> list_branch(merged, key, value)
      [] value.t = "set" -> set_branch(merged, key, value)
      [] value.t = "cache" -> cache_branch(merged, key, value)
      [] OTHER -> Returned(Put(merged, key, value))

RECURSIVE merge_items(_, _, _)
\* for key, value in d.items(), from position i of KeyOrder on
merge_items(acc, d, i) ==
    IF i > Len(KeyOrder) \/ acc.err # "" THEN acc
    ELSE IF KeyOrder[i] \in DOMAIN d
         THEN merge_items(merge_item(acc.map, KeyOrder[i], d[KeyOrder[i]]), d, i + 1)
         ELSE merge_items(acc, d, i + 1)

RECURSIVE merge_dicts(_, _, _)
\* for d in dicts, from position i on
merge_dicts(acc, dicts, i) ==
    IF i > Len(dicts) \/ acc.err # "" THEN acc
    ELSE merge_dicts(merge_items(acc, dicts[i], 1), dicts, i + 1)

\* cache_merge(*dicts)
cache_merge(dicts) == merge_dicts(Returned(EmptyFn), dicts, 1)

\* Cache.merge(self, other): self's contents afterwards, or the exception raised,
\* which leaves self's contents as they were
Cache_merge(self, other) ==
    LET r == cache_merge(<<self, other>>)
    IN  IF r.err # "" THEN Raised(r.err, self) ELSE r

\* a.merge(b) followed by a.merge(c); an exception ends the sequence
merge_twice(a, b, c) ==
    LET r == Cache_merge(a, b)
    IN  IF r.err # "" THEN r ELSE Cache_merge(r.map, c)

\* b.merge(c) followed by a.merge(b)
merge_right(a, b, c) ==
    LET r == Cache_merge(b, c)
    IN  IF r.err # "" THEN Raised(r.err, a) ELSE Cache_merge(a, r.map)

\* dict.update(value): value's items are layered onto the dict's
dict_update(d, value) ==
    [x \in DOMAIN d \cup DOMAIN value |-> IF x \in DOMAIN value THEN value[x] ELSE d[x]]

\* Cache.add(key, value) on the contents self: the contents afterwards, or the
\* exception raised.  A dict added to a key that is present is passed to the
\* update method of the value held: a dict is updated, a set takes the dict's
\* keys as elements (kept as the domain of the set value's d), and an int, None,
\* a list or a Cache has no update
Cache_add(self, key, value) ==
    IF key \in DOMAIN self
    THEN IF value.t = "dict"
         THEN CASE self[key].t = "dict" ->
                       Returned(Put(self, key, VDict(dict_update(self[key].d, value.d))))
                [] self[key].t = "set" ->
                       Returned(Put(self, key,
                                    [self[key] EXCEPT !.d = dict_update(@, [x \in DOMAIN value.d |-> PyNone])]))
                [] OTHER -> Raised("AttributeError", self)
         ELSE Returned(Put(self, key, value))
    ELSE Returned(Put(self, key, value))

\* the merge variable before any merge
NoMerge == [op |-> "", a |-> EmptyFn, b |-> EmptyFn, c |-> EmptyFn,
            left |-> Returned(EmptyFn), right |-> Returned(EmptyFn)]

(***************************************************************************)
(* The handlers as actions.  last records the call and what it returned.   *)
(***************************************************************************)
NoObs == [op |-> "", rid |-> PyNone, key |-> "", val |-> PyNone, res |-> PyNone,
          found |-> FALSE, err |-> "", act |-> PyNone, encl |-> PyNone,
          fetched |-> <<>>, invoked |-> <<>>, warned |-> <<>>, closed |-> PyNone,
          cleared |-> PyNone, deleted |-> PyNone, body |-> "", fn |-> "", silent |-> TRUE,
          executed |-> <<>>, args |-> <<>>, steps |-> <<>>]

Obs(op, rid, key) ==
    [NoObs EXCEPT !.op = op, !.rid = rid, !.key = key, !.act = active_run(World)]

Commit(w) ==
    /\ stack' = w.stack
    /\ nruns' = w.nruns
    /\ ended' = w.ended
    /\ run_caches' = w.rc
    /\ cache' = w.pc
    /\ artifacts' = w.art
    /\ folders' = w.tmp
    /\ UNCHANGED <<merge, wrapped, callers>>

\* the run ids a caller can name: none, or a run the backend knows
RunArgs == {PyNone} \cup (1..nruns)

\* a run-scoped operation with no resolvable run: run_init raises ValueError
NoRunError(op, rid, key) ==
    /\ Commit(World)
    /\ last' = [Obs(op, rid, key) EXCEPT !.err = "ValueError"]

RunInit(rid) ==
    /\ UNCHANGED scopes
    /\ IF NoRunResolved(World, rid) THEN NoRunError("run_init", rid, "")
       ELSE /\ Commit(run_init(World, rid))
            /\ last' = [Obs("run_init", rid, "") EXCEPT !.res = get_run(World, rid)]

RunAdd(key, value, rid) ==
    /\ UNCHANGED scopes
    /\ IF NoRunResolved(World, rid) THEN NoRunError("run_add", rid, key)
       ELSE /\ Commit(run_add(World, key, value, rid))
            /\ last' = [Obs("run_add", rid, key) EXCEPT !.val = value]

RunGet(key, rid) ==
    /\ UNCHANGED scopes
    /\ IF NoRunResolved(World, rid) THEN NoRunError("run_get", rid, key)
       ELSE \E w1 \in {run_init(World, rid)} :
                /\ Commit(w1)
                /\ last' = [Obs("run_get", rid, key) EXCEPT
                               !.res = cache_get(w1.rc[get_run(World, rid)].data, key)]

RunExists(key, rid) ==
    /\ UNCHANGED scopes
    /\ IF NoRunResolved(World, rid) THEN NoRunError("run_exists", rid, key)
       ELSE \E w1 \in {run_init(World, rid)} :
                /\ Commit(w1)
                /\ last' = [Obs("run_exists", rid, key) EXCEPT
                               !.found = cache_exists(w1.rc[get_run(World, rid)].data, key)]

RunPop(key, rid, default) ==
    /\ UNCHANGED scopes
    /\ IF NoRunResolved(World, rid) THEN NoRunError("run_pop", rid, key)
       ELSE \E w1 \in {run_init(World, rid)} :
                /\ Commit(run_pop(World, key, rid))
                /\ last' = [Obs("run_pop", rid, key) EXCEPT
                               !.val = default,
                               !.res = Cache_pop(w1.rc[get_run(World, rid)].data, key,
                                                 default)]

RunClear(rid) ==
    /\ UNCHANGED scopes
    /\ IF NoRunResolved(World, rid) THEN NoRunError("run_clear", rid, "")
       ELSE /\ Commit(run_clear(World, rid))
            /\ last' = [Obs("run_clear", rid, "") EXCEPT !.cleared = get_run(World, rid)]

RunDelete(rid) ==
    /\ UNCHANGED scopes
    /\ IF NoRunResolved(World, rid) THEN NoRunError("run_delete", rid, "")
       ELSE /\ Commit(run_delete(World, rid))
            /\ last' = [Obs("run_delete", rid, "") EXCEPT !.deleted = get_run(World, rid)]

RegisterSetup(name, fn, order, silent) ==
    /\ UNCHANGED scopes
    /\ Commit(register_setup(World, Entry(name, fn, order, PyNone)))
    /\ last' = [Obs("register_setup", PyNone, name) EXCEPT !.fn = fn, !.silent = silent]

RegisterSetupFn(name, fn, nested, intermediate, order, silent) ==
    /\ UNCHANGED scopes
    /\ Commit(register_setup(World, SetupFn(name, fn, nested, intermediate, order)))
    /\ last' = [Obs("register_setup_fn", PyNone, name) EXCEPT !.fn = fn, !.silent = silent]

RegisterTeardown(name, fn, order, silent) ==
    /\ UNCHANGED scopes
    /\ Commit(register_teardown(World, Entry(name, fn, order, PyNone)))
    /\ last' = [Obs("register_teardown", PyNone, name) EXCEPT !.fn = fn, !.silent = silent]

StartRun(nested, setups, exc) ==
    /\ nruns < MaxRuns
    /\ UNCHANGED scopes
    /\ \E s \in {start_run(World, nested, setups, exc)} :
           /\ Commit(s.w)
           /\ last' = [Obs("start_run", PyNone, "") EXCEPT !.res = s.run, !.err = s.err,
                          !.fetched = s.fetched, !.invoked = s.invoked,
                          !.executed = s.executed]

EndRun(exc) ==
    /\ UNCHANGED scopes
    /\ \E e \in {end_run(World, exc)} :
           /\ Commit(e.w)
           /\ last' = [Obs("end_run", PyNone, "") EXCEPT !.err = e.err,
                          !.fetched = e.fetched, !.invoked = e.invoked,
                          !.warned = e.warned, !.closed = e.closed, !.steps = e.steps]

\* pypads.cache.add("consolidated_dict", ...): a logger keeps its consolidated
\* log in the process cache
Consolidate ==
    /\ UNCHANGED scopes
    /\ Commit([World EXCEPT !.pc.cons = <<1>>])
    /\ last' = Obs("consolidate", PyNone, "consolidated_dict")

\* a logger writes temporary files into get_temp_folder() of the active run
UseTempFolder ==
    /\ stack # <<>>
    /\ UNCHANGED scopes
    /\ Commit([World EXCEPT !.tmp = @ \cup {active_run(World)}])
    /\ last' = Obs("temp_folder", PyNone, "")

(***************************************************************************)
(* intermediate_run: a context manager.  IntermediateEnter is the code up  *)
(* to the yield, IntermediateExit the finally block that runs when the     *)
(* body returns or raises.  A scope that never reaches its yield runs its  *)
(* finally block at once.                                                  *)
(***************************************************************************)
\* A finally block that restores the enclosing run without ending the nested run.
intermediate_finally_NoEnd(w, enclosing, exc) ==
    [w |-> w, err |-> "", fetched |-> <<>>, invoked |-> <<>>, warned |-> <<>>,
     closed |-> PyNone, cleared |-> PyNone, deleted |-> PyNone]

\* self.pypads.cache.run_clear(); self.pypads.cache.run_delete() after the
\* end_run() of the finally block returned e
clear_and_delete(e) ==
    LET a == active_run(e.w)
        base == [w |-> e.w, err |-> e.err, fetched |-> e.fetched, invoked |-> e.invoked,
                 warned |-> e.warned, closed |-> e.closed, cleared |-> PyNone,
                 deleted |-> PyNone]
    IN  IF e.err # "" THEN base
        \* run_clear() with no active run: run_init raises ValueError
        ELSE IF a = PyNone THEN [base EXCEPT !.err = "ValueError"]
        ELSE [base EXCEPT !.w = run_delete(run_clear(e.w, PyNone), PyNone),
                          !.cleared = a, !.deleted = a]

\* the finally block of PyPadsApi.intermediate_run
intermediate_finally(w, enclosing, exc) ==
    IF active_run(w) # enclosing
    THEN clear_and_delete(end_run(w, exc))
    \* mlflow.start_run(run_id=enclosing_run.info.run_id): None has no info, and
    \* mlflow refuses to start a run while a run is active
    ELSE [w |-> w, err |-> IF enclosing = PyNone THEN "AttributeError" ELSE "Exception",
          fetched |-> <<>>, invoked |-> <<>>, warned |-> <<>>, closed |-> PyNone,
          cleared |-> PyNone, deleted |-> PyNone]

FinallyObs(o, f) ==
    [o EXCEPT !.err = f.err, !.fetched = f.fetched, !.invoked = f.invoked,
              !.warned = f.warned, !.closed = f.closed, !.cleared = f.cleared,
              !.deleted = f.deleted]

IntermediateEnter(nested, setups, exc, excT) ==
    /\ nruns < MaxRuns
    /\ \E enclosing \in {active_run(World)} :
       \E s \in {start_run(World, nested, setups, exc)} :
       \E o \in {[Obs("intermediate_enter", PyNone, "") EXCEPT !.encl = enclosing,
                     !.res = s.run]} :
           IF s.err = ""
           THEN /\ Commit(run_add_enclosing(s.w, enclosing))
                /\ scopes' = Append(scopes, [encl |-> enclosing, run |-> s.run,
                                            depth |-> Len(stack)])
                /\ last' = [o EXCEPT !.fetched = s.fetched, !.invoked = s.invoked,
                                     !.executed = s.executed]
           ELSE \E f \in {intermediate_finally(s.w, enclosing, excT)} :
                    /\ Commit(f.w)
                    /\ UNCHANGED scopes
                    /\ last' = [FinallyObs(o, f) EXCEPT !.body = "not entered",
                                   !.err = IF f.err # "" THEN f.err ELSE s.err]

IntermediateExit(raised, exc) ==
    /\ scopes # <<>>
    /\ \E frame \in {scopes[Len(scopes)]} :
       \E f \in {intermediate_finally(World, frame.encl, exc)} :
       \E o \in {[Obs("intermediate_exit", PyNone, "") EXCEPT !.encl = frame.encl,
                     !.res = frame.run, !.body = IF raised THEN "raised" ELSE "returned"]} :
           /\ Commit(f.w)
           /\ scopes' = SubSeq(scopes, 1, Len(scopes) - 1)
           /\ last' = FinallyObs(o, f)

(***************************************************************************)
(* track.  A function is its __name__; a context is a module or a class    *)
(* with the attributes it defines; a path "a.b" is the pair <<a, b>>; an   *)
(* anchor is its name, the key the anchor registry compares anchors by.    *)
(***************************************************************************)
MaxTracked == 2   \* calls of track the wrap manager records

FnNames == {"fit", "predict"}

NoCtx == [kind |-> "none", name |-> "", attrs |-> {}]

Ctxs == {NoCtx,
         [kind |-> "module", name |-> "lib", attrs |-> {"fit"}],
         [kind |-> "class", name |-> "Tree", attrs |-> {"fit"}]}

\* an element of an anchors list: a name, an Anchor object or anything else
AStr(n) == [t |-> "str", name |-> n]
AObj(n) == [t |-> "anchor", name |-> n]
AOther == [t |-> "other", name |-> ""]

\* the anchors argument: None, an iterable of elements or one object
NoAnchors == [kind |-> "none", items |-> <<>>]
AnchorList(items) == [kind |-> "list", items |-> items]
OneAnchor(item) == [kind |-> "one", items |-> <<item>>]

AnchorArgs == {NoAnchors, AnchorList(<<AStr("pypads_fit"), AStr("custom")>>),
               OneAnchor(AObj("pypads_fit")), AnchorList(<<AOther>>)}

\* Mapping(matcher, collection, anchors, values)
MappingOf(path, anchors, concept) ==
    [given |-> TRUE, matcher |-> path, anchors |-> anchors, concept |-> concept]

NoMapping == [given |-> FALSE, matcher |-> <<>>, anchors |-> {}, concept |-> ""]

MappingArgs == {NoMapping, MappingOf(<<"lib", "fit">>, {"pypads_fit"}, "declared")}

\* the anchors the registry holds when the process starts
DefaultAnchors == {"pypads_log", "pypads_fit"}

NoWrapped == [registry |-> DefaultAnchors, calls |-> <<>>]

\* pypads.bindings.anchors.get_anchor(name): the registered anchor, or None
get_anchor(registry, name) == IF name \in registry THEN <<name>> ELSE <<>>

\* A track that keeps a context which does not define the function.
checked_ctx_Kept(ctx, fn) == ctx

\* lines 98-100: a context that does not define fn.__name__ is dropped
checked_ctx(ctx, fn) == IF ctx.kind # "none" /\ fn \notin ctx.attrs THEN NoCtx ELSE ctx

\* lines 103-109: a context with a __module__ (a class: its __module__ is a str,
\* which has no __name__) raises AttributeError; a module gives its __name__
ctx_path(ctx) ==
    CASE ctx.kind = "none" -> [err |-> "", path |-> "<unbound>"]
      [] ctx.kind = "module" -> [err |-> "", path |-> ctx.name]
      [] OTHER -> [err |-> "AttributeError", path |-> ""]

\* lines 111-114: the list of anchors that is iterated
anchor_list(anchors) ==
    IF anchors.kind = "none" THEN <<AStr("pypads_log")>> ELSE anchors.items

\* lines 116-124: names are looked up, unknown names make a new Anchor, Anchor
\* objects are taken as they are, anything else is skipped
anchor_set(items) == {items[i].name : i \in {j \in 1..Len(items) : items[j].t # "other"}}

\* Anchor(a, "No description available") registers the anchors it constructs
anchors_registered(registry, items) ==
    registry \cup {items[i].name : i \in {j \in 1..Len(items) : items[j].t = "str"}}

\* lines 127-137: the mapping handed on, a default one when none was given
mapping_of(mapping, path, fn, anchors) ==
    IF mapping.given THEN mapping ELSE [MappingOf(<<path, fn>>, anchors, fn) EXCEPT !.given = FALSE]

\* PyPadsApi.track: the call of wrap_manager.wrap it ends with, or the exception
track(w, fn, ctx, anchors, mapping) ==
    LET c == checked_ctx(ctx, fn)
        p == ctx_path(c)
        items == anchor_list(anchors)
        m == mapping_of(mapping, p.path, fn, anchor_set(items))
        call == [fn |-> fn, ctx |-> c,
                 matched |-> {[mapping |-> m, path |-> <<p.path, fn>>]},
                 args |-> [ctx |-> ctx, anchors |-> anchors, mapping |-> mapping]]
    IN  IF p.err # "" THEN [err |-> p.err, w |-> w]
        ELSE [err |-> "",
              w |-> [registry |-> anchors_registered(w.registry, items),
                     calls |-> Append(w.calls, call)]]

Track(fn, ctx, anchors, mapping) ==
    /\ Len(wrapped.calls) < MaxTracked
    /\ \E t \in {track(wrapped, fn, ctx, anchors, mapping)} :
           /\ wrapped' = t.w
           /\ last' = [Obs("track", PyNone, fn) EXCEPT !.err = t.err,
                          !.args = <<[ctx |-> ctx, anchors |-> anchors, mapping |-> mapping]>>]
    /\ UNCHANGED <<stack, nruns, ended, run_caches, cache, scopes, merge, artifacts, callers,
                   folders>>

(***************************************************************************)
(* The logging calls as actions.                                           *)
(***************************************************************************)
\* a logging call: its meta record is in the store when it returns normally
Log(op, key, r) ==
    /\ artifacts' = r.store
    /\ last' = [Obs(op, PyNone, key) EXCEPT !.err = r.err]
    /\ UNCHANGED <<stack, nruns, ended, run_caches, cache, scopes, merge, wrapped, callers,
                   folders>>

LogMetric(key) == Log("log_metric", key, log_metric(artifacts, key))

LogParam(key) == Log("log_param", key, log_param(artifacts, key))

SetTag(key) == Log("set_tag", key, set_tag(artifacts, key))

LogArtifact(local_path, meta) ==
    Log("log_artifact", basename(local_path), log_artifact(artifacts, local_path, meta))

LogMemArtifact(path) == Log("log_mem_artifact", path, log_mem_artifact(artifacts, path))

\* metric_meta, param_meta, artifact_meta: found tells whether the record was read
ReadMeta(op, kind, key) ==
    /\ last' = [Obs(op, PyNone, key) EXCEPT
                   !.found = read_meta(artifacts, to_meta_name(kind, key))]
    /\ UNCHANGED <<stack, nruns, ended, run_caches, cache, scopes, merge, wrapped, artifacts,
                   callers, folders>>

MetricMeta(name) == ReadMeta("metric_meta", "metric", name)

ParamMeta(name) == ReadMeta("param_meta", "param", name)

ArtifactMeta(name) == ReadMeta("artifact_meta", "artifact", name)

(***************************************************************************)
(* run_add called from several threads.  A thread can be preempted between *)
(* the statements of run_init and run_add: after the membership test of    *)
(* line 147, after the run cache is installed at line 149, and after       *)
(* register_cleanup_fn returns at line 150.  callers holds one record per  *)
(* thread: its arguments, the run it resolved, the statement it executes   *)
(* next and whether it installed a run cache.                              *)
(***************************************************************************)
MaxCallers == 2   \* threads that call run_add

ThreadKeys == {"x", "y"}

Caller(pc, key, value, run) ==
    [pc |-> pc, key |-> key, value |-> value, run |-> run, installed |-> FALSE]

\* the world with callers changed and nothing else
ThreadStep(w, c) ==
    /\ stack' = w.stack
    /\ nruns' = w.nruns
    /\ ended' = w.ended
    /\ run_caches' = w.rc
    /\ cache' = w.pc
    /\ callers' = c
    /\ UNCHANGED <<scopes, last, merge, wrapped, artifacts, folders>>

\* lines 144-147: a thread enters run_add; run_init resolves the run, raises when
\* there is none, and tests whether the run has a run cache
ThreadCall(key, value, rid) ==
    /\ Len(callers) < MaxCallers
    /\ ThreadStep(World,
                  Append(callers,
                         Caller(IF NoRunResolved(World, rid) THEN "raised"
                                ELSE IF get_run(World, rid) \in DOMAIN run_caches THEN "add"
                                ELSE "install",
                                key, value, get_run(World, rid))))

\* lines 148-149: the run cache the thread stores under the run id
installed_cache(rc, run) == NewRunCache

\* lines 148-149: run_cache = PypadsRunCache(run); self._run_caches[id] = run_cache
ThreadInstall(t) ==
    /\ callers[t].pc = "install"
    /\ ThreadStep([World EXCEPT !.rc = Put(run_caches, callers[t].run,
                                            installed_cache(run_caches, callers[t].run))],
                  [callers EXCEPT ![t].pc = "register", ![t].installed = TRUE])

\* line 150: run_cache.register_cleanup_fn()
ThreadRegister(t) ==
    /\ callers[t].pc = "register"
    /\ ThreadStep(register_cleanup_fn(World, callers[t].run),
                  [callers EXCEPT ![t].pc = "add"])

\* line 155: self._run_caches[run.info.run_id].add(key, value)
ThreadAdd(t) ==
    /\ callers[t].pc = "add"
    /\ callers[t].run \in DOMAIN run_caches
    /\ ThreadStep([World EXCEPT !.rc[callers[t].run].data =
                                    cache_add(@, callers[t].key, callers[t].value)],
                  [callers EXCEPT ![t].pc = "done"])

(***************************************************************************)
(* Spec: the run lifecycle with the run-scoped cache operations.           *)
(***************************************************************************)
Init ==
    /\ stack = <<>>
    /\ nruns = 0
    /\ ended = {}
    /\ run_caches = EmptyFn
    /\ cache = NewProcCache
    /\ scopes = <<>>
    /\ last = NoObs
    /\ merge = NoMerge
    /\ wrapped = NoWrapped
    /\ artifacts = {}
    /\ callers = <<>>
    /\ folders = {}

Excs == {exc \in [RegNames -> Outcomes] : \A n \in RegNames \ UserNames : exc[n] = "ok"}

\* every user entry returns normally
AllOk == [n \in RegNames |-> "ok"]

\* the run-scoped cache operations, with and without an explicit run id
\* the defaults run_pop is called with: the parameter's own default and a value
\* no cache holds
PopDefaults == {PyNone, 7}

CacheOps ==
    \/ \E rid \in RunArgs : RunInit(rid)
    \/ \E key \in UserKeys, value \in Vals, rid \in RunArgs : RunAdd(key, value, rid)
    \/ \E key \in UserKeys, rid \in RunArgs : RunGet(key, rid)
    \/ \E key \in UserKeys, rid \in RunArgs : RunExists(key, rid)
    \/ \E key \in UserKeys, rid \in RunArgs, default \in PopDefaults :
           RunPop(key, rid, default)
    \/ \E rid \in RunArgs : RunClear(rid)
    \/ \E rid \in RunArgs : RunDelete(rid)

Next ==
    \/ CacheOps
    \/ \E nested \in BOOLEAN : StartRun(nested, FALSE, AllOk)
    \/ EndRun(AllOk)

Spec == Init /\ [][Next]_vars

(***************************************************************************)
(* SpecReg: registration of setup and teardown entries under three names   *)
(* and three orders, around runs started and ended one after the other.    *)
(***************************************************************************)
OptNames(opt) == IF opt = <<>> THEN {} ELSE RegNamesOf(opt[1])

\* the names registered as setup entries
SetupNames == OptNames(cache.pre)

\* the names registered as teardown entries, in the process cache or a run cache
TeardownNames ==
    OptNames(cache.post) \cup UNION {OptNames(run_caches[r].post) : r \in DOMAIN run_caches}

\* the names of the registry the next register_teardown resolves
ScopeNames ==
    IF stack = <<>> THEN OptNames(cache.post)
    ELSE IF active_run(World) \in DOMAIN run_caches
         THEN OptNames(run_caches[active_run(World)].post) ELSE {}

\* what the entries raise, for the entries of the given names (no other is called)
ExcsOf(names) == {exc \in [RegNames -> Outcomes] : \A n \in RegNames \ names : exc[n] = "ok"}

\* Callers give one name to one entry: a name is registered again only in the
\* registry that holds it.
NextReg ==
    \/ \E name \in RegNames \ TeardownNames, order \in RegOrders :
           RegisterSetup(name, "fn1", order, TRUE)
    \/ \E name \in (RegNames \ (SetupNames \cup TeardownNames)) \cup ScopeNames,
          order \in RegOrders :
           RegisterTeardown(name, "fn1", order, TRUE)
    \/ \E exc \in ExcsOf(SetupNames) : StartRun(FALSE, TRUE, exc)
    \/ \E exc \in ExcsOf(ScopeNames) : EndRun(exc)

SpecReg == Init /\ [][NextReg]_vars

(***************************************************************************)
(* SpecInter: intermediate_run scopes whose bodies start and end runs,     *)
(* write to the active run's cache and register entries.                   *)
(***************************************************************************)
NextInter ==
    \/ \E nested \in BOOLEAN, setups \in BOOLEAN, exc \in Excs, excT \in Excs :
           IntermediateEnter(nested, setups, exc, excT)
    \/ \E raised \in BOOLEAN, exc \in Excs : IntermediateExit(raised, exc)
    \/ \E nested \in BOOLEAN, exc \in Excs : StartRun(nested, TRUE, exc)
    \/ \E exc \in Excs : EndRun(exc)
    \/ \E key \in UserKeys : RunAdd(key, 1, PyNone)
    \/ \E key \in UserKeys : RunGet(key, PyNone)
    \/ \E name \in UserNames : RegisterSetup(name, "fn1", 1, TRUE)
    \/ \E name \in UserNames : RegisterTeardown(name, "fn1", 1, TRUE)

SpecInter == Init /\ [][NextInter]_vars

(***************************************************************************)
(* SpecGate: setup functions registered with every combination of flags,   *)
(* and runs started plainly, nested and through intermediate_run.          *)
(***************************************************************************)
GateNames == {"a", "b"}

NextGate ==
    \/ \E name \in GateNames, nested \in BOOLEAN, intermediate \in BOOLEAN :
           RegisterSetupFn(name, "fn1", nested, intermediate, 1, TRUE)
    \/ \E nested \in BOOLEAN : StartRun(nested, TRUE, AllOk)
    \/ \E nested \in BOOLEAN : IntermediateEnter(nested, TRUE, AllOk, AllOk)
    \/ IntermediateExit(FALSE, AllOk)
    \/ EndRun(AllOk)

SpecGate == Init /\ [][NextGate]_vars

(***************************************************************************)
(* SpecDup: repeated registration under the same names with different      *)
(* functions, in the setup registry and in every teardown scope.           *)
(***************************************************************************)
DupNames == {"a", "b"}

NextDup ==
    \/ \E name \in DupNames, fn \in Fns, silent \in BOOLEAN : RegisterSetup(name, fn, 1, silent)
    \/ \E name \in DupNames, fn \in Fns, silent \in BOOLEAN :
           RegisterTeardown(name, fn, 1, silent)
    \/ StartRun(FALSE, FALSE, AllOk)
    \/ EndRun(AllOk)

SpecDup == Init /\ [][NextDup]_vars

(***************************************************************************)
(* SpecMerge: Cache.merge applied to caches drawn from a bounded universe  *)
(* of scalars, lists, sets, dicts and nested caches.                       *)
(***************************************************************************)
Elems == {1, 2}

Lists == UNION {[1..n -> Elems] : n \in 0..MaxLen}

Dicts == {f \in UNION {[D -> Elems] : D \in SUBSET {"p", "q"}} :
             "q" \in DOMAIN f => f["q"] = 1}

InnerVals == {VInt(1), VInt(2), VList(<<1>>)}

Nested == {EmptyFn} \cup [{"j"} -> InnerVals]

TopVals ==
    {VInt(n) : n \in Elems} \cup {VList(l) : l \in Lists} \cup {VSet(x) : x \in SUBSET Elems}
    \cup {VDict(d) : d \in Dicts} \cup {VCache(m) : m \in Nested}

Caches ==
    {EmptyFn} \cup [{"k"} -> TopVals] \cup [{"m"} -> {VInt(1)}]
    \cup {f \in [{"k", "m"} -> TopVals] : f["m"] = VInt(1)}

InitMerge ==
    /\ stack = <<>>
    /\ nruns = 0
    /\ ended = {}
    /\ run_caches = EmptyFn
    /\ cache = NewProcCache
    /\ scopes = <<>>
    /\ last = NoObs
    /\ wrapped = NoWrapped
    /\ artifacts = {}
    /\ callers = <<>>
    /\ folders = {}
    /\ merge \in {[NoMerge EXCEPT !.a = A, !.b = B, !.c = C] : A \in Caches, B \in Caches, C \in Caches}

\* a.merge(Cache()) and Cache().merge(a)
MergeEmpty ==
    /\ merge' = [merge EXCEPT !.op = "empty", !.left = Cache_merge(merge.a, EmptyFn),
                              !.right = Cache_merge(EmptyFn, merge.a)]
    /\ UNCHANGED <<stack, nruns, ended, run_caches, cache, scopes, last, wrapped, artifacts,
                   callers, folders>>

\* a.merge(b)
MergeAB ==
    /\ merge' = [merge EXCEPT !.op = "ab", !.left = Cache_merge(merge.a, merge.b),
                              !.right = Returned(EmptyFn)]
    /\ UNCHANGED <<stack, nruns, ended, run_caches, cache, scopes, last, wrapped, artifacts,
                   callers, folders>>

\* a.merge(b); a.merge(c) against b.merge(c); a.merge(b)
MergeAssoc ==
    /\ merge' = [merge EXCEPT !.op = "assoc", !.left = merge_twice(merge.a, merge.b, merge.c),
                              !.right = merge_right(merge.a, merge.b, merge.c)]
    /\ UNCHANGED <<stack, nruns, ended, run_caches, cache, scopes, last, wrapped, artifacts,
                   callers, folders>>

NextMerge == MergeEmpty \/ MergeAB \/ MergeAssoc

SpecMerge == InitMerge /\ [][NextMerge]_vars

(***************************************************************************)
(* SpecAdd: values of every kind added to one Cache, call after call.      *)
(***************************************************************************)
AddKeys == {"k", "m"}

\* Cache.add(key, value) on the cache the calls before have built: a holds the
\* contents before the call, b the argument, left the outcome
CacheAdd(key, value) ==
    /\ merge' = [op |-> "add", a |-> merge.left.map, b |-> [x \in {key} |-> value],
                 c |-> EmptyFn, left |-> Cache_add(merge.left.map, key, value),
                 right |-> Returned(EmptyFn)]
    /\ UNCHANGED <<stack, nruns, ended, run_caches, cache, scopes, last, wrapped, artifacts,
                   callers, folders>>

NextAdd == \E key \in AddKeys, value \in TopVals : CacheAdd(key, value)

SpecAdd == Init /\ [][NextAdd]_vars

(***************************************************************************)
(* SpecTrack: functions tracked with and without a context, anchors and a  *)
(* mapping.                                                                *)
(***************************************************************************)
NextTrack ==
    \E fn \in FnNames, ctx \in Ctxs, anchors \in AnchorArgs, mapping \in MappingArgs :
        Track(fn, ctx, anchors, mapping)

SpecTrack == Init /\ [][NextTrack]_vars

(***************************************************************************)
(* SpecMeta: metrics, parameters, tags and artifacts logged under two keys *)
(* and their meta records read back.                                       *)
(***************************************************************************)
NextMeta ==
    \/ \E key \in MetaKeys : LogMetric(key)
    \/ \E key \in MetaKeys : LogParam(key)
    \/ \E key \in MetaKeys : SetTag(key)
    \/ \E local_path \in LocalPaths, meta \in RawMetas : LogArtifact(local_path, meta)
    \/ \E path \in MetaKeys : LogMemArtifact(path)
    \/ \E name \in MetaKeys : MetricMeta(name)
    \/ \E name \in MetaKeys : ParamMeta(name)
    \/ \E name \in MetaKeys : ArtifactMeta(name)

SpecMeta == Init /\ [][NextMeta]_vars

(***************************************************************************)
(* SpecThreads: threads that call run_add, with and without a run id,      *)
(* while runs are started.  No run cache is cleared or deleted.            *)
(***************************************************************************)
NextThreads ==
    \/ \E nested \in BOOLEAN : StartRun(nested, FALSE, AllOk)
    \/ \E key \in ThreadKeys, value \in Vals, rid \in RunArgs : ThreadCall(key, value, rid)
    \/ \E t \in 1..Len(callers) : ThreadInstall(t)
    \/ \E t \in 1..Len(callers) : ThreadRegister(t)
    \/ \E t \in 1..Len(callers) : ThreadAdd(t)

SpecThreads == Init /\ [][NextThreads]_vars

(***************************************************************************)
(* SpecEnd: runs ended with a consolidated log in the process cache, with  *)
(* temporary files on disk and with teardown entries of small and of very  *)
(* large order, registered before and after the run was started.           *)
(***************************************************************************)
EndNames == {"a", "b"}

EndOrders == {1, MaxSize, MaxSize + 1}

NextEnd ==
    \/ Consolidate
    \/ UseTempFolder
    \/ \E name \in EndNames \ (TeardownNames \ ScopeNames), order \in EndOrders :
           RegisterTeardown(name, "fn1", order, TRUE)
    \/ \E nested \in BOOLEAN : StartRun(nested, FALSE, AllOk)
    \/ \E exc \in ExcsOf(ScopeNames) : EndRun(exc)

SpecEnd == Init /\ [][NextEnd]_vars

(***************************************************************************)
(* SpecOwn: runs started and ended around run-scoped operations that name  *)
(* the run they act on; no operation clears or deletes a run cache, so a   *)
(* run cache can only leave the registry through its cleanup entry.        *)
(***************************************************************************)
NextOwn ==
    \/ \E rid \in RunArgs : RunInit(rid)
    \/ \E key \in UserKeys, value \in Vals, rid \in RunArgs : RunAdd(key, value, rid)
    \/ \E key \in UserKeys, rid \in RunArgs : RunGet(key, rid)
    \/ \E key \in UserKeys, rid \in RunArgs : RunExists(key, rid)
    \/ \E nested \in BOOLEAN : StartRun(nested, FALSE, AllOk)
    \/ EndRun(AllOk)

SpecOwn == Init /\ [][NextOwn]_vars

(***************************************************************************)
(* Properties.                                                             *)
(***************************************************************************)
\* C1: once end_run() has closed run R, the registry holds no run cache for R
\* (every run cache of R was created lazily while R was running).
C1_NoCacheAfterEndRun ==
    (last.op = "end_run" /\ last.closed # PyNone) => last.closed \notin DOMAIN run_caches

\* C2: end_run() of an active run invokes every entry of the teardown registry
\* exactly once, whichever of them raise an exception or an interrupt, and closes
\* the backend run afterwards.
C2_TeardownIsolation ==
    (last.op = "end_run" /\ last.act # PyNone) =>
        /\ Len(last.invoked) = Len(last.fetched)
        /\ \A i \in 1..Len(last.fetched) :
               Cardinality({j \in 1..Len(last.invoked) : last.invoked[j] = last.fetched[i]}) = 1
        /\ last.err = ""
        /\ last.closed = last.act
        /\ last.act \in ended

\* C2 witness: three user entries are registered and the second one to run raised.
C2_SecondOfThreeRaised ==
    /\ last.op = "end_run"
    /\ Len(last.fetched) >= 3
    /\ Len(last.warned) = 1
    /\ last.warned[1] = last.fetched[2]
    /\ last.invoked[1] = last.fetched[1]
    /\ last.invoked[3] = last.fetched[3]
    /\ last.fetched[3].fn # "cleanup_cache"

Ascending(s) == \A i, j \in 1..Len(s) : i < j => s[i].order <= s[j].order

\* C3: run_setups and end_run invoke the registered entries in non-decreasing
\* order value, whatever the order in which they were registered.
C3_OrderedExecution ==
    (last.op \in {"start_run", "end_run"}) => Ascending(last.invoked)

\* C3 witness: setups registered with orders 5, 1, 3 were executed as 1, 3, 5.
C3_FiveOneThree ==
    /\ last.op = "start_run"
    /\ cache.pre # <<>>
    /\ [i \in 1..Len(cache.pre[1]) |-> cache.pre[1][i].order] = <<5, 1, 3>>
    /\ [i \in 1..Len(last.invoked) |-> last.invoked[i].order] = <<1, 3, 5>>

\* C4: registering under a name the scope already holds changes nothing: the
\* entry first registered stays and no entry is added, for register_setup and
\* for register_teardown within the teardown scope the call resolves.
C4_IdempotentRegistration ==
    [][/\ (last'.op = "register_setup" /\ last'.key \in OptNames(cache.pre))
            => (cache' = cache /\ run_caches' = run_caches)
       /\ (last'.op = "register_teardown" /\ last'.key \in ScopeNames)
            => (cache' = cache /\ run_caches' = run_caches)]_vars

\* C4 witness: "a" holds fn1 after a noisy register_setup("a", fn2).
C4_SecondIgnored ==
    /\ last.op = "register_setup"
    /\ last.key = "a"
    /\ last.fn = "fn2"
    /\ ~last.silent
    /\ cache.pre # <<>>
    /\ Len(cache.pre[1]) = 2
    /\ RegGet(cache.pre[1], "a").fn = "fn1"

\* C5: when an intermediate_run scope entered under run R0 exits, normally or
\* by raising, while its nested run is still the active run, the nested run is
\* ended and R0 is the active run again.
C5_EnclosingRestored ==
    (last.op = "intermediate_exit" /\ last.encl # PyNone /\ last.act = last.res) =>
        /\ active_run(World) = last.encl
        /\ last.res \in ended
        /\ last.res \notin {stack[i] : i \in 1..Len(stack)}

\* C5 witness: a scope nested in a run was left by an exception.
C5_ExitByRaising ==
    /\ last.op = "intermediate_exit"
    /\ last.body = "raised"
    /\ last.encl # PyNone
    /\ last.act = last.res
    /\ active_run(World) = last.encl

RunOps == {"run_add", "run_pop", "run_clear", "run_get", "run_exists"}

\* C6: a run-scoped operation naming run R1 returns R1's own value and leaves
\* the run cache of every other initialized run R2 as it was.
C6_RunCacheIsolation ==
    [][(last'.op \in RunOps /\ last'.err = "") =>
          LET r1 == get_run(World, last'.rid)
          IN  /\ \A r2 \in DOMAIN run_caches \ {r1} :
                     r2 \in DOMAIN run_caches' /\ run_caches'[r2] = run_caches[r2]
              /\ last'.op = "run_get" =>
                     last'.res = (IF r1 \in DOMAIN run_caches
                                  THEN cache_get(run_caches[r1].data, last'.key) ELSE PyNone)]_vars

AllRunOps == RunOps \cup {"run_init", "run_delete"}

\* C7: a run-scoped operation called with no run id while no run is active fails
\* with the no-active-run ValueError and changes neither the run caches nor the
\* process cache, hence no teardown registry.
C7_NoActiveRun ==
    [][(last'.op \in AllRunOps /\ last'.rid = PyNone /\ stack = <<>>) =>
          (last'.err = "ValueError" /\ run_caches' = run_caches /\ cache' = cache
           /\ stack' = stack)]_vars

\* C7 witness: run_delete() failed with no run active while a run cache existed.
C7_DeleteWithoutRun ==
    /\ last.op = "run_delete"
    /\ last.err = "ValueError"
    /\ stack = <<>>
    /\ DOMAIN run_caches # {}

\* C8: merging a cache with an empty cache, in either order, returns the
\* contents of the cache.
C8_MergeWithEmpty ==
    merge.op = "empty" =>
        (merge.left = Returned(merge.a) /\ merge.right = Returned(merge.a))

ContainerOf(m, k) == IF k \in DOMAIN m THEN m[k].t ELSE "absent"

\* the keys of a, b and c hold lists, dicts or sets, of one kind where shared
Compatible(a, b, c) ==
    \A k \in DOMAIN a \cup DOMAIN b \cup DOMAIN c :
        \E kind \in {"list", "dict", "set"} :
            {ContainerOf(a, k), ContainerOf(b, k), ContainerOf(c, k)} \subseteq {kind, "absent"}

\* C9: for caches of compatible container values, a.merge(b); a.merge(c) ends
\* as b.merge(c); a.merge(b) does.
C9_MergeAssociative ==
    (merge.op = "assoc" /\ Compatible(merge.a, merge.b, merge.c)) => merge.left = merge.right

\* C10: a list under a key of both caches becomes a's list followed by b's; a
\* list under a key of one cache alone is kept.
C10_ListsConcatenated ==
    merge.op = "ab" =>
        \A k \in DOMAIN merge.a \cup DOMAIN merge.b :
            LET ta == ContainerOf(merge.a, k)
                tb == ContainerOf(merge.b, k)
            IN  /\ (ta = "list" /\ tb = "list") =>
                       /\ merge.left.err = ""
                       /\ merge.left.map[k] = VList(merge.a[k].l \o merge.b[k].l)
                /\ (ta = "list" /\ tb = "absent") =>
                       (merge.left.err = "" => merge.left.map[k] = merge.a[k])
                /\ (ta = "absent" /\ tb = "list") =>
                       (merge.left.err = "" => merge.left.map[k] = merge.b[k])

\* track(fn) was called with no mapping and no anchors, and with no context or a
\* context that does not define fn
UnboundDefault(fn, args) ==
    /\ ~args.mapping.given
    /\ args.anchors.kind = "none"
    /\ (args.ctx.kind = "none" \/ fn \notin args.ctx.attrs)

\* C11: track(fn) with no mapping, no anchors and no context that defines fn
\* hands the wrap manager no context and exactly one matched mapping, whose path
\* is "<unbound>.<fn>" and whose anchors are the default log-call anchor alone;
\* such a call always reaches the wrap manager.
C11_UnboundDefaultMapping ==
    (last.op = "track" /\ UnboundDefault(last.key, last.args[1])) =>
        /\ last.err = ""
        /\ Len(wrapped.calls) > 0
        /\ LET call == wrapped.calls[Len(wrapped.calls)]
           IN  /\ call.fn = last.key
               /\ call.args = last.args[1]
               /\ call.ctx = NoCtx
               /\ Cardinality(call.matched) = 1
               /\ \A mm \in call.matched :
                      /\ mm.path = <<"<unbound>", last.key>>
                      /\ mm.mapping.matcher = mm.path
                      /\ mm.mapping.anchors = {"pypads_log"}

\* C11 witness: a function was tracked with a module that does not define it.
C11_ContextDiscarded ==
    /\ last.op = "track"
    /\ last.err = ""
    /\ last.key = "predict"
    /\ UnboundDefault(last.key, last.args[1])
    /\ last.args[1].ctx.kind = "module"
    /\ Len(wrapped.calls) = 2
    /\ wrapped.calls[2].ctx = NoCtx

\* the kind of meta record each reader asks for
MetaKindOf == [metric_meta |-> "metric", param_meta |-> "param", artifact_meta |-> "artifact"]

\* C12: metric_meta, param_meta and artifact_meta find the meta record that an
\* earlier log_metric, log_param or artifact logging call wrote for the same key.
C12_MetaRoundTrip ==
    (last.op \in DOMAIN MetaKindOf
     /\ \E a \in artifacts : a.content = MetaModel(MetaKindOf[last.op], last.key))
        => last.found

\* C13: Cache.add inserts under an absent key, merges a dict into a dict key by
\* key, and in every other case succeeds and leaves the new value under the key.
C13_AddInsertsMergesOrOverwrites ==
    merge.op = "add" =>
        \A k \in DOMAIN merge.b :
            LET v == merge.b[k]
                both == k \in DOMAIN merge.a /\ merge.a[k].t = "dict" /\ v.t = "dict"
            IN  /\ merge.left.err = ""
                /\ merge.left.map =
                       Put(merge.a, k, IF both THEN VDict(dict_update(merge.a[k].d, v.d)) ELSE v)

\* C14: when a and b hold nested caches under k whose inner key j holds
\* different scalars, a.merge(b) holds b's scalar under k.j.
C14_NestedLaterWins ==
    merge.op = "ab" =>
        \A k \in DOMAIN merge.a \cap DOMAIN merge.b :
            (merge.a[k].t = "cache" /\ merge.b[k].t = "cache") =>
                \A j \in DOMAIN merge.a[k].c \cap DOMAIN merge.b[k].c :
                    (/\ merge.a[k].c[j].t = "int"
                     /\ merge.b[k].c[j].t = "int"
                     /\ merge.a[k].c[j] # merge.b[k].c[j]) =>
                        /\ merge.left.err = ""
                        /\ merge.left.map[k].t = "cache"
                        /\ merge.left.map[k].c[j] = merge.b[k].c[j]

\* C15: when a and b hold sets under k, a.merge(b) completes, holds the union of
\* the two sets under k and keeps every other key of a and b.
C15_SetsUnioned ==
    merge.op = "ab" =>
        \A k \in DOMAIN merge.a \cap DOMAIN merge.b :
            (merge.a[k].t = "set" /\ merge.b[k].t = "set") =>
                /\ merge.left.err = ""
                /\ merge.left.map[k] = VSet(merge.a[k].s \cup merge.b[k].s)
                /\ DOMAIN merge.left.map = DOMAIN merge.a \cup DOMAIN merge.b

Compound == {"list", "dict", "set", "cache"}

\* C16: when a holds a compound value under k and b holds a value of another
\* kind under k, a.merge(b) does not return a mapping in which k holds b's value.
C16_NoSilentOverwrite ==
    merge.op = "ab" =>
        \A k \in DOMAIN merge.a \cap DOMAIN merge.b :
            (merge.a[k].t \in Compound /\ merge.b[k].t # merge.a[k].t) =>
                ~(merge.left.err = "" /\ merge.left.map[k] = merge.b[k])

\* C17: when an intermediate_run scope exits while its nested run N is still
\* the active run, the run cache cleared and deleted is N's and no other, and the
\* registry holds no run cache for N afterwards.
C17_OwnCacheCleared ==
    (last.op = "intermediate_exit" /\ last.act = last.res) =>
        /\ last.cleared = last.res
        /\ last.deleted = last.res
        /\ last.res \notin DOMAIN run_caches

\* C18: a setup entry registered with nested=false is not executed for a nested
\* run, and one registered with intermediate=false is not executed for a run
\* started through intermediate_run.
C18_SetupsGated ==
    /\ (last.op \in {"start_run", "intermediate_enter"} /\ Len(stack) > 1
        /\ last.res = active_run(World)) =>
           \A i \in 1..Len(last.executed) : last.executed[i].nested
    /\ last.op = "intermediate_enter" =>
           \A i \in 1..Len(last.executed) : last.executed[i].intermediate

\* C20: start_run with setups enabled calls every registered setup entry, also
\* the entries that come after one that raises.
C20_SetupIsolation ==
    last.op = "start_run" =>
        \A i \in 1..Len(last.fetched) :
            \E j \in 1..Len(last.invoked) : last.invoked[j] = last.fetched[i]

\* C19: of the threads that call run_add for one run at most one installs a run
\* cache, and once all have returned the run cache holds under each thread's
\* key the value that thread, or a thread writing the same key, has added.
C19_OneRunCachePerRun ==
    /\ \A t1, t2 \in 1..Len(callers) :
           (callers[t1].installed /\ callers[t2].installed /\ callers[t1].run = callers[t2].run)
               => t1 = t2
    /\ (\A t \in 1..Len(callers) : callers[t].pc \in {"done", "raised"}) =>
           \A t \in 1..Len(callers) :
               callers[t].pc = "done" =>
                   /\ callers[t].run \in DOMAIN run_caches
                   /\ callers[t].key \in DOMAIN run_caches[callers[t].run].data
                   /\ \E u \in 1..Len(callers) :
                          /\ callers[u].pc = "done"
                          /\ callers[u].run = callers[t].run
                          /\ callers[u].key = callers[t].key
                          /\ run_caches[callers[t].run].data[callers[t].key] = callers[u].value

\* the positions of the steps of one kind
StepsOf(steps, ev) == {i \in 1..Len(steps) : steps[i].ev = ev}

\* C21: end_run() of an active run flushes the consolidated log first when the
\* process cache holds one, then calls every teardown entry while the run is
\* still the active run, then closes the backend run and removes the run's
\* folder of temporary files last.
C21_EndRunOrdered ==
    (last.op = "end_run" /\ last.act # PyNone) =>
        /\ cache.cons # <<>> =>
               /\ StepsOf(last.steps, "flush") = {1}
               /\ \E a \in artifacts : a.name = <<"consolidated_log", JsonFormat>>
        /\ cache.cons = <<>> => StepsOf(last.steps, "flush") = {}
        /\ Cardinality(StepsOf(last.steps, "call")) = Len(last.fetched)
        /\ Cardinality(StepsOf(last.steps, "close")) = 1
        /\ \A i \in StepsOf(last.steps, "call") :
               /\ last.steps[i].active = last.act
               /\ \A c \in StepsOf(last.steps, "close") : i < c
        /\ \A i \in StepsOf(last.steps, "clean") :
               \A c \in StepsOf(last.steps, "close") : c < i
        /\ last.act \in ended
        /\ last.act \notin folders

\* C21 witness: a consolidated log was flushed, two entries were called, one of
\* which failed, the run was closed and its temporary files were removed.
C21_FlushCallCloseClean ==
    /\ last.op = "end_run"
    /\ last.act # PyNone
    /\ Len(last.steps) >= 5
    /\ last.steps[1].ev = "flush"
    /\ last.steps[Len(last.steps)].ev = "clean"
    /\ Len(last.warned) = 1
    /\ Len(last.invoked) >= 2

\* C22: a run cache leaves the registry in the step that ends its own run, and
\* in no other step, whichever run was active when the cache was created.
C22Step ==
    \A r \in DOMAIN run_caches :
        r \notin DOMAIN run_caches' <=> r \in ended' \ ended

C22_DeletedWhenOwnRunEnds == [][C22Step]_vars

\* C23: in end_run() of an active run the cleanup entry of that run's cache is
\* the last entry called, whatever orders the other entries of the registry
\* carry, so that the run cache is present while every other entry executes.
C23_CleanupLast ==
    (last.op = "end_run" /\ last.act # PyNone) =>
        \A i \in 1..Len(last.invoked) :
            last.invoked[i] = CleanupEntry(last.act) => i = Len(last.invoked)

\* C24: when the body of an intermediate_run scope has ended the nested run, so
\* that the enclosing run (or no run, when there was none) is the active run
\* again as the scope exits, the exit raises nothing and leaves the stack of
\* active runs as it was before the scope was entered.
C24Step ==
    (last'.op = "intermediate_exit" /\ scopes # <<>>) =>
        LET frame == scopes[Len(scopes)]
        IN  (active_run(World) = frame.encl /\ frame.run \in ended
             /\ Len(stack) = frame.depth) =>
                (last'.err = "" /\ stack' = stack)

C24_BodyEndedNestedRun == [][C24Step]_vars

\* the run cache of run r is the same before and after the step
CacheKept(r) == r \in DOMAIN run_caches' /\ run_caches'[r] = run_caches[r]

\* C25Enter: entering an intermediate_run scope under R0 leaves R0's run cache
\* as it was.
C25Enter ==
    (last'.op = "intermediate_enter" /\ active_run(World) \in DOMAIN run_caches) =>
        CacheKept(active_run(World))

\* C25: entering an intermediate_run scope under run R0, and leaving it while
\* its nested run is the active run, leave R0's run cache as it was: its values
\* and its teardown entries.
C25Step ==
    (last'.op = "intermediate_exit" /\ scopes # <<>>) =>
        LET r0 == scopes[Len(scopes)].encl
        IN  (r0 # PyNone /\ r0 \in DOMAIN run_caches /\ r0 \notin ended'
             /\ active_run(World) = scopes[Len(scopes)].run) =>
                CacheKept(r0)

C25_EnclosingCacheKept == [][C25Enter /\ C25Step]_vars

\* the entries of an optional registry
OptEntries(opt) == IF opt = <<>> THEN {} ELSE {opt[1][i] : i \in 1..Len(opt[1])}

\* C26: end_run() of an active run calls every teardown entry registered while
\* no run was active, as it calls the entries registered while the run was.
C26_EarlierEntriesInvoked ==
    (last.op = "end_run" /\ last.act # PyNone) =>
        \A e \in OptEntries(cache.post) :
            \E j \in 1..Len(last.invoked) : last.invoked[j] = e

\* C27: end_run() called while no run is active fails with the no-active-run
\* error and warns about no teardown entry.
C27_EndRunWithoutRun ==
    (last.op = "end_run" /\ last.act = PyNone) =>
        (last.err = "ValueError" /\ last.warned = <<>>)

\* the contents of the run cache of run r, empty while it is not created
DataOf(rc, r) == IF r \in DOMAIN rc THEN rc[r].data ELSE EmptyFn

\* C28: run_pop(key, default=d) returns the stored value and removes the key
\* when the key is present; it returns d and leaves the contents as they were
\* when the key is absent.
C28Step ==
    (last'.op = "run_pop" /\ last'.err = "") =>
        LET r == get_run(World, last'.rid)
            before == DataOf(run_caches, r)
            after == DataOf(run_caches', r)
        IN  IF last'.key \in DOMAIN before
            THEN last'.res = before[last'.key] /\ last'.key \notin DOMAIN after
            ELSE last'.res = last'.val /\ after = before

C28_PopReturnsDefault == [][C28Step]_vars

====
